---- MODULE Spec2Model ----
(***************************************************************************)
(* GreenpulseNG backend (src/backend.py): the emissions table and the six  *)
(* request handlers that read or write it, plus the database               *)
(* initialisation that runs when the module is imported.                   *)
(*                                                                         *)
(* Every handler is an async function without an await between opening    *)
(* and closing its connection, so a handler runs as one atomic step.       *)
(*                                                                         *)
(* Numbers: amounts, factors and stored emissions are integers here; the   *)
(* quotients the handlers compute (total / 12, 1 - pct / 100, the green    *)
(* score) are exact rationals <<n, d>> with d > 0 in lowest terms.         *)
(***************************************************************************)
EXTENDS Integers, Sequences, FiniteSets, TLC

VARIABLES
    store,        \* rows of table emissions in rowid order
    rows_before,  \* history: how many rows the last step found in the table
    lastOp,       \* name of the function that ran last
    request,      \* its arguments
    response,     \* what the client got: status and body / detail / exception
    locals,       \* the dataframes the last get_forecast call built
    openConns     \* sqlite connections opened and not yet closed

vars == <<store, rows_before, lastOp, request, response, locals, openConns>>

\* ---------------------------------------------------------------- bounds
MaxRows == 2
MaxFileRows == 2

\* ------------------------------------------------------------- rationals
Abs(x) == IF x < 0 THEN -x ELSE x

RECURSIVE GCD(_, _)
GCD(a, b) == IF b = 0 THEN a ELSE GCD(b, a % b)

Norm(n, d) ==
    LET s == IF d < 0 THEN -1 ELSE 1
        g == GCD(Abs(n), Abs(d))
    IN  <<(s * n) \div g, (s * d) \div g>>

RInt(x) == <<x, 1>>
RMul(a, b) == Norm(a[1] * b[1], a[2] * b[2])
RDiv(a, b) == Norm(a[1] * b[2], a[2] * b[1])
RAdd(a, b) == Norm(a[1] * b[2] + b[1] * a[2], a[2] * b[2])
RSub(a, b) == Norm(a[1] * b[2] - b[1] * a[2], a[2] * b[2])
RLess(a, b) == a[1] * b[2] < b[1] * a[2]
RMin(a, b) == IF RLess(b, a) THEN b ELSE a
RMax(a, b) == IF RLess(a, b) THEN b ELSE a

\* --------------------------------------------------------- request inputs
required_columns ==
    {"business_id", "business_type", "date", "source_category", "activity",
     "amount", "unit", "emission_factor", "scope"}

Entry(b, t, d, c, act, am, u, ef, sc) ==
    [business_id |-> b, business_type |-> t, date |-> d,
     source_category |-> c, activity |-> act, amount |-> am, unit |-> u,
     emission_factor |-> ef, scope |-> sc]

\* ManualEntry bodies and CSV rows the clients send
Entries ==
    { Entry("b1", "retail", "2024-01", "electricity", "grid",     4, "kWh",   3, "2"),
      Entry("b1", "retail", "2024-02", "waste",       "landfill", 5, "kg",    2, "3"),
      Entry("b2", "retail", "2024-01", "transport",   "diesel",   0, "litre", -7, "1"),
      Entry("b2", "retail", "2024-02", "commute",     "bus",     -3, "km",    2, "3"),
      Entry("b1", "farm",   "2024-01", "other",       "misc",     2, "unit", -1, "1"),
      Entry("b1", "retail", "2024-02", "electricity", "grid",    30, "kWh",   1, "2") }

BusinessIds == {"b1", "b2"}

\* columns a CSV file may carry beyond the required ones, with the value
\* the file gives them in every row
ExtraColumns == [user_id |-> "7", emissions_kgCO2e |-> 999]

ColumnChoices ==
    { required_columns,
      required_columns \cup DOMAIN ExtraColumns,
      required_columns \ {"amount"},
      required_columns \ {"scope"} }

FileRow(e, cols) ==
    [c \in cols |-> IF c \in DOMAIN e THEN e[c] ELSE ExtraColumns[c]]

SeqsUpTo(S, n) == UNION {[1..k -> S] : k \in 0..n}

File(cols, es) ==
    [columns |-> cols, rows |-> [i \in 1..Len(es) |-> FileRow(es[i], cols)]]

\* complete files of up to MaxFileRows rows; files with missing or extra
\* columns of at most one row
Files ==
    { File(required_columns, es) : es \in SeqsUpTo(Entries, MaxFileRows) }
    \cup { File(cols, es) : cols \in ColumnChoices, es \in SeqsUpTo(Entries, 1) }

\* ------------------------------------------------------------- security
DevUser == [id |-> 1, username |-> "dev"]

current_active_user == DevUser

\* ------------------------------------------------------------- database
get_conn(c) == c + 1

conn_close(c) == c - 1

\* variant: the connection is closed after the return statement only
finally_close_on_return(resp, c) ==
    IF resp.status = 200 THEN conn_close(c) ELSE c

\* the finally: conn.close() of a handler; runs whatever the try block did
finally_close(resp, c) == conn_close(c)

\* ------------------------------------------------------------- handlers
Row(e, emissions, uid) ==
    [business_id |-> e.business_id, business_type |-> e.business_type,
     date |-> e.date, source_category |-> e.source_category,
     activity |-> e.activity, amount |-> e.amount, unit |-> e.unit,
     emission_factor |-> e.emission_factor, emissions_kgCO2e |-> emissions,
     scope |-> e.scope, user_id |-> uid]

\* variant: the emissions value ignores the sign of the amount
manual_entry_abs(entry, user, tbl) ==
    LET emissions_kgCO2e == Abs(entry.amount) * entry.emission_factor
    IN  [store |-> Append(tbl, Row(entry, emissions_kgCO2e, ToString(user.id))),
         response |-> [status |-> 200,
                       body |-> [message |-> "Manual entry added successfully",
                                 emissions_kgCO2e |-> emissions_kgCO2e]]]

\* variant: the insert overwrites the caller's rows of the same business
manual_entry_upsert(entry, user, tbl) ==
    LET emissions_kgCO2e == entry.amount * entry.emission_factor
        kept == SelectSeq(tbl, LAMBDA r : r.business_id # entry.business_id)
    IN  [store |-> Append(kept, Row(entry, emissions_kgCO2e, ToString(user.id))),
         response |-> [status |-> 200,
                       body |-> [message |-> "Manual entry added successfully",
                                 emissions_kgCO2e |-> emissions_kgCO2e]]]

manual_entry(entry, user, tbl) ==
    LET emissions_kgCO2e == entry.amount * entry.emission_factor
    IN  [store |-> Append(tbl, Row(entry, emissions_kgCO2e, ToString(user.id))),
         response |-> [status |-> 200,
                       body |-> [message |-> "Manual entry added successfully",
                                 emissions_kgCO2e |-> emissions_kgCO2e]]]

\* variant: to_sql(..., if_exists='append')
upload_csv_append(file, user, tbl) ==
    IF ~(\A col \in required_columns : col \in file.columns)
    THEN [store |-> tbl, opened |-> FALSE,
          response |-> [status |-> 400, detail |-> "Missing required columns"]]
    ELSE LET df == [i \in 1..Len(file.rows) |->
                      Row(file.rows[i],
                          file.rows[i].amount * file.rows[i].emission_factor,
                          ToString(user.id))]
         IN  [store |-> tbl \o df, opened |-> TRUE,
              response |-> [status |-> 200,
                            body |-> [message |-> "Data uploaded and replaced successfully",
                                      rows |-> Len(df)]]]

upload_csv(file, user, tbl) ==
    IF ~(\A col \in required_columns : col \in file.columns)
    THEN [store |-> tbl, opened |-> FALSE,
          response |-> [status |-> 400, detail |-> "Missing required columns"]]
    ELSE LET df == [i \in 1..Len(file.rows) |->
                      Row(file.rows[i],
                          file.rows[i].amount * file.rows[i].emission_factor,
                          ToString(user.id))]
         IN  [store |-> df, opened |-> TRUE,
              response |-> [status |-> 200,
                            body |-> [message |-> "Data uploaded and replaced successfully",
                                      rows |-> Len(df)]]]


\* ------------------------------------------------------ dataframe helpers
RECURSIVE SumEmissions(_)
SumEmissions(df) ==
    IF df = <<>> THEN 0
    ELSE Head(df).emissions_kgCO2e + SumEmissions(Tail(df))

Column(df, col) == {df[i][col] : i \in 1..Len(df)}

\* df.groupby(col)['emissions_kgCO2e'].sum(): a series indexed by the keys
GroupSum(df, col) ==
    [k \in Column(df, col) |->
        SumEmissions(SelectSeq(df, LAMBDA r : r[col] = k))]

\* group keys as groupby sorts them
SortedKeys ==
    <<"2024-01", "2024-02", "bus", "commute", "diesel", "electricity", "grid",
      "landfill", "misc", "other", "transport", "waste">>

KeyPos(k) == CHOOSE i \in 1..Len(SortedKeys) : SortedKeys[i] = k

\* series.idxmax(): the first key, in index order, that holds the maximum
IdxMax(series) ==
    CHOOSE k \in DOMAIN series :
        /\ \A j \in DOMAIN series : series[j] <= series[k]
        /\ \A j \in DOMAIN series :
              series[j] = series[k] => KeyPos(k) <= KeyPos(j)

\* variant: SELECT * FROM emissions WHERE user_id = ?
select_business_any(tbl, business_id, user) ==
    SelectSeq(tbl, LAMBDA r : r.user_id = ToString(user.id))

\* SELECT * FROM emissions WHERE business_id = ? AND user_id = ?
select_business(tbl, business_id, user) ==
    SelectSeq(tbl, LAMBDA r : /\ r.business_id = business_id
                              /\ r.user_id = ToString(user.id))

\* SELECT * FROM emissions WHERE business_type = ?
select_sector(tbl, business_type) ==
    SelectSeq(tbl, LAMBDA r : r.business_type = business_type)

get_ai_recommendation(activity, source_category) ==
    CASE source_category = "electricity" ->
            "Consider installing solar panels to reduce reliance on the grid."
      [] source_category = "transport" ->
            "Optimize delivery routes and consider using more fuel-efficient vehicles."
      [] source_category = "waste" ->
            "Implement a recycling program and compost organic waste."
      [] OTHER ->
            "Review your energy consumption and identify areas for reduction."

\* ---------------------------------------------------------------- reads
avg_monthly_of(total_emissions) == RDiv(RInt(total_emissions), RInt(12))

get_dashboard(business_id, user, tbl) ==
    LET df == select_business(tbl, business_id, user)
    IN  IF Len(df) = 0
        THEN [status |-> 404, detail |-> "No data found for this business"]
        ELSE LET total_emissions == SumEmissions(df)
                 contributors == GroupSum(df, "source_category")
                 by_scope == GroupSum(df, "scope")
             IN  [status |-> 200,
                  body |-> [total_emissions |-> RInt(total_emissions),
                            avg_monthly_emissions |-> avg_monthly_of(total_emissions),
                            contributors |->
                                {[source_category |-> k,
                                  emissions_kgCO2e |-> contributors[k]] :
                                    k \in DOMAIN contributors},
                            by_scope |->
                                {[scope |-> k, emissions_kgCO2e |-> by_scope[k]] :
                                    k \in DOMAIN by_scope}]]

RECURSIVE SumOver(_, _)
SumOver(series, keys) ==
    IF keys = {} THEN 0
    ELSE LET k == CHOOSE x \in keys : TRUE
         IN  series[k] + SumOver(series, keys \ {k})

\* series.mean()
Mean(series) ==
    RDiv(RInt(SumOver(series, DOMAIN series)), RInt(Cardinality(DOMAIN series)))

\* variant: the score is returned as computed
clamp_score_none(green_score) == green_score

\* max(0, min(100, green_score))
clamp_score(green_score) == RMax(RInt(0), RMin(RInt(100), green_score))

green_score_of(total_emissions, avg_sector_emissions) ==
    clamp_score(IF RLess(RInt(0), avg_sector_emissions)
                THEN RMul(RSub(RInt(1),
                               RDiv(RInt(total_emissions), avg_sector_emissions)),
                          RInt(100))
                ELSE RInt(100))

get_insights(business_id, user, tbl) ==
    LET df_business == select_business(tbl, business_id, user)
    IN  IF Len(df_business) = 0
        THEN [status |-> 404, detail |-> "No data found for this business"]
        ELSE LET business_type == df_business[1].business_type
                 total_emissions == SumEmissions(df_business)
                 df_sector == select_sector(tbl, business_type)
                 avg_sector_emissions == Mean(GroupSum(df_sector, "business_id"))
                 top_activity == IdxMax(GroupSum(df_business, "activity"))
                 top_source_category ==
                     SelectSeq(df_business,
                               LAMBDA r : r.activity = top_activity)[1].source_category
             IN  [status |-> 200,
                  body |-> [green_score |->
                                green_score_of(total_emissions, avg_sector_emissions),
                            recommendation |->
                                get_ai_recommendation(top_activity, top_source_category),
                            explanation |-> "Based on Nigerian grid emission factors"]]

\* --------------------------------------------------------------- forecast
Knob(waste, solar, transport, commute) ==
    [waste_reduction |-> waste, solar_percentage |-> solar,
     transport_reduction |-> transport, commute_reduction |-> commute]

\* ScenarioRequest bodies: every knob within Field(ge=0, le=100)
Knobs ==
    { Knob(0, 0, 0, 0), Knob(50, 50, 50, 50), Knob(100, 100, 100, 100),
      Knob(100, 50, 0, 0), Knob(0, 0, 50, 100) }

CategoryFilters == {"all", "electricity"}

Scenarios ==
    { [waste_reduction |-> k.waste_reduction,
       solar_percentage |-> k.solar_percentage,
       transport_reduction |-> k.transport_reduction,
       commute_reduction |-> k.commute_reduction,
       source_category |-> f] : k \in Knobs, f \in CategoryFilters }

\* the dataframe holds emissions_kgCO2e as floats
AsFloat(df) ==
    [i \in 1..Len(df) |->
        [df[i] EXCEPT !.emissions_kgCO2e = RInt(df[i].emissions_kgCO2e)]]

\* sim_data.loc[sim_data['source_category'] == category, 'emissions_kgCO2e']
\*     *= (1 - pct / 100)
scale_category(sim_data, category, pct) ==
    [i \in 1..Len(sim_data) |->
        IF sim_data[i].source_category = category
        THEN [sim_data[i] EXCEPT !.emissions_kgCO2e =
                 RMul(@, RSub(RInt(1), RDiv(RInt(pct), RInt(100))))]
        ELSE sim_data[i]]

\* variant: electricity rows are scaled by waste_reduction
simulate_swapped(df, scenario) ==
    LET s0 == AsFloat(df)
        s1 == scale_category(s0, "waste", scenario.waste_reduction)
        s2 == scale_category(s1, "electricity", scenario.waste_reduction)
        s3 == scale_category(s2, "transport", scenario.transport_reduction)
        s4 == scale_category(s3, "commute", scenario.commute_reduction)
    IN  s4

simulate(df, scenario) ==
    LET s0 == AsFloat(df)
        s1 == scale_category(s0, "waste", scenario.waste_reduction)
        s2 == scale_category(s1, "electricity", scenario.solar_percentage)
        s3 == scale_category(s2, "transport", scenario.transport_reduction)
        s4 == scale_category(s3, "commute", scenario.commute_reduction)
    IN  s4

RECURSIVE SumFloat(_)
SumFloat(df) ==
    IF df = <<>> THEN RInt(0)
    ELSE RAdd(Head(df).emissions_kgCO2e, SumFloat(Tail(df)))

\* df_filtered.groupby('date')['emissions_kgCO2e'].sum().reset_index()
\*     .rename(columns={'date': 'ds', 'emissions_kgCO2e': 'y'})
prophet_frame(df_filtered) ==
    { [ds |-> d,
       y |-> SumFloat(SelectSeq(df_filtered, LAMBDA r : r.date = d))] :
        d \in Column(df_filtered, "date") }

\* variant: if len(df_prophet) < 1: raise
too_short_one(df_prophet) == Cardinality(df_prophet) < 1

\* if len(df_prophet) < 2: raise
too_short(df_prophet) == Cardinality(df_prophet) < 2

NoLocals == [fitted |-> FALSE]

get_forecast(business_id, scenario, user, tbl) ==
    LET df == select_business(tbl, business_id, user)
    IN  IF Len(df) = 0
        THEN [response |-> [status |-> 400, detail |-> "Not enough data for forecast"],
              locals |-> NoLocals]
        ELSE LET sim_data == simulate(df, scenario)
                 df_filtered ==
                     IF scenario.source_category = "all" THEN sim_data
                     ELSE SelectSeq(sim_data,
                                    LAMBDA r : r.source_category = scenario.source_category)
                 df_prophet == prophet_frame(df_filtered)
             IN  IF too_short(df_prophet)
                 THEN [response |-> [status |-> 400,
                                     detail |-> "Not enough data for forecast"],
                       locals |-> [fitted |-> FALSE, df |-> df, sim_data |-> sim_data,
                                   df_prophet |-> df_prophet]]
                 ELSE [response |-> [status |-> 200,
                                     body |-> [forecast |-> "Prophet", periods |-> 12]],
                       locals |-> [fitted |-> TRUE, df |-> df, sim_data |-> sim_data,
                                   df_prophet |-> df_prophet]]

\* ----------------------------------------------------------------- report
\* names bound at module level: the imports and the module's own definitions
module_names ==
    {"os", "sqlite3", "uuid", "datetime", "pd", "FastAPI", "Depends",
     "HTTPException", "UploadFile", "File", "Form", "Request", "CORSMiddleware",
     "OAuth2PasswordBearer", "JWTError", "jwt", "BaseModel", "Field", "uvicorn",
     "CryptContext", "io", "letter", "canvas", "renderPDF", "Drawing", "Pie",
     "HexColor", "Prophet", "app", "get_conn", "init_db", "get_ai_recommendation"}

generate_pdf_report(business_id, user, tbl) ==
    LET df == select_business(tbl, business_id, user)
    IN  IF Len(df) = 0
        THEN [status |-> 404, detail |-> "No data found for report"]
        ELSE LET business_type == df[1].business_type
                 total_emissions == SumEmissions(df)
                 avg_monthly == RDiv(RInt(total_emissions), RInt(12))
                 contributors == GroupSum(df, "source_category")
                 top_category == IdxMax(contributors)
                 recommendation == get_ai_recommendation("", top_category)
                 buffer == [business_id |-> business_id,
                            business_type |-> business_type,
                            total_emissions |-> total_emissions,
                            avg_monthly |-> avg_monthly,
                            contributors |-> contributors,
                            recommendation |-> recommendation]
             IN  IF "Response" \in module_names
                 THEN [status |-> 200, media_type |-> "application/pdf",
                       content |-> buffer]
                 ELSE [status |-> 500, exception |-> "NameError"]

\* ---------------------------------------------------------------- actions
Init ==
    /\ store = <<>>
    /\ rows_before = 0
    /\ lastOp = "init_db"
    /\ request = <<>>
    /\ response = [status |-> 0]
    /\ locals = NoLocals
    /\ openConns = 0

\* DROP TABLE IF EXISTS emissions; CREATE TABLE IF NOT EXISTS emissions (...)
init_db(tbl) == <<>>

\* process start: importing the module runs init_db()
InitDb ==
    /\ lastOp # "init_db"
    /\ store' = init_db(store)
    /\ rows_before' = Len(store)
    /\ lastOp' = "init_db"
    /\ request' = <<>>
    /\ response' = [status |-> 0]
    /\ locals' = NoLocals
    /\ openConns' = conn_close(get_conn(openConns))

ManualEntry ==
    \E entry \in Entries :
        /\ Len(store) < MaxRows
        /\ LET r == manual_entry(entry, current_active_user, store)
           IN  /\ store' = r.store
               /\ response' = r.response
               /\ openConns' = finally_close(r.response, get_conn(openConns))
        /\ rows_before' = Len(store)
        /\ lastOp' = "manual_entry"
        /\ request' = [entry |-> entry]
        /\ locals' = NoLocals

UploadCsv ==
    \E file \in Files :
        /\ LET r == upload_csv(file, current_active_user, store)
           IN  /\ store' = r.store
               /\ response' = r.response
               /\ openConns' = IF r.opened
                               THEN finally_close(r.response, get_conn(openConns))
                               ELSE openConns
        /\ rows_before' = Len(store)
        /\ lastOp' = "upload_csv"
        /\ request' = [file |-> file]
        /\ locals' = NoLocals

GetDashboard ==
    \E business_id \in BusinessIds :
        /\ response' = get_dashboard(business_id, current_active_user, store)
        /\ openConns' = finally_close(response', get_conn(openConns))
        /\ rows_before' = Len(store)
        /\ lastOp' = "get_dashboard"
        /\ request' = [business_id |-> business_id]
        /\ locals' = NoLocals
        /\ UNCHANGED store

GetInsights ==
    \E business_id \in BusinessIds :
        /\ response' = get_insights(business_id, current_active_user, store)
        /\ openConns' = finally_close(response', get_conn(openConns))
        /\ rows_before' = Len(store)
        /\ lastOp' = "get_insights"
        /\ request' = [business_id |-> business_id]
        /\ locals' = NoLocals
        /\ UNCHANGED store

GetForecast ==
    \E business_id \in BusinessIds, scenario \in Scenarios :
        /\ LET r == get_forecast(business_id, scenario, current_active_user, store)
           IN  /\ response' = r.response
               /\ locals' = r.locals
               /\ openConns' = finally_close(r.response, get_conn(openConns))
        /\ rows_before' = Len(store)
        /\ lastOp' = "get_forecast"
        /\ request' = [business_id |-> business_id, scenario |-> scenario]
        /\ UNCHANGED store

GeneratePdfReport ==
    \E business_id \in BusinessIds :
        /\ response' = generate_pdf_report(business_id, current_active_user, store)
        /\ openConns' = finally_close(response', get_conn(openConns))
        /\ rows_before' = Len(store)
        /\ lastOp' = "generate_pdf_report"
        /\ request' = [business_id |-> business_id]
        /\ locals' = NoLocals
        /\ UNCHANGED store

Next ==
    \/ InitDb
    \/ ManualEntry
    \/ UploadCsv
    \/ GetDashboard
    \/ GetInsights
    \/ GetForecast
    \/ GeneratePdfReport

Spec == Init /\ [][Next]_vars

\* ------------------------------------------------------------ properties
uid == ToString(current_active_user.id)

\* rows of the table the caller owns for business_id, by position
Mine(business_id) ==
    {i \in 1..Len(store) :
        store[i].business_id = business_id /\ store[i].user_id = uid}

RECURSIVE SumAt(_)
SumAt(S) ==
    IF S = {} THEN 0
    ELSE LET i == CHOOSE x \in S : TRUE
         IN  store[i].emissions_kgCO2e + SumAt(S \ {i})

\* C1: every stored record has emissions_kgCO2e = amount * emission_factor
\* of its own amount and emission_factor, zero and negative values included.
C1_EmissionsIsProduct ==
    \A i \in 1..Len(store) :
        store[i].emissions_kgCO2e = store[i].amount * store[i].emission_factor

C1_Witness ==
    /\ lastOp = "manual_entry"
    /\ Len(store) = 2
    /\ \E i \in 1..Len(store) : store[i].amount = 0
    /\ \E i \in 1..Len(store) : store[i].amount < 0
    /\ \E i \in 1..Len(store) : store[i].emission_factor < 0

\* C2: a bulk load whose file has the nine required columns succeeds and
\* leaves in the store exactly the rows of the file, in number equal to the
\* returned count, each with the caller's user_id and its own product as
\* emissions; nothing else is in the store.
C2_BulkLoadReplacesStore ==
    (lastOp = "upload_csv" /\ required_columns \subseteq request.file.columns) =>
        /\ response.status = 200
        /\ response.body.rows = Len(request.file.rows)
        /\ Len(store) = Len(request.file.rows)
        /\ \A i \in 1..Len(store) :
              /\ DOMAIN store[i] =
                     required_columns \cup {"emissions_kgCO2e", "user_id"}
              /\ \A c \in required_columns : store[i][c] = request.file.rows[i][c]
              /\ store[i].user_id = uid
              /\ store[i].emissions_kgCO2e =
                     request.file.rows[i].amount * request.file.rows[i].emission_factor

C2_Witness ==
    /\ lastOp = "upload_csv"
    /\ response.status = 200
    /\ rows_before = 2
    /\ Len(store) = 1
    /\ store[1].business_id = "b2"
    /\ store[1].amount < 0

\* C3: a manual entry adds one record at the end of the store, built from
\* the submitted fields, the product and the caller's user_id, keeps every
\* earlier record as it was, and returns the product.
C3_ManualEntryAppends ==
    [][lastOp' = "manual_entry" =>
        /\ Len(store') = Len(store) + 1
        /\ SubSeq(store', 1, Len(store)) = store
        /\ LET e == request'.entry
               r == store'[Len(store')]
           IN  /\ \A c \in required_columns : r[c] = e[c]
               /\ r.emissions_kgCO2e = e.amount * e.emission_factor
               /\ r.user_id = uid
               /\ response'.status = 200
               /\ response'.body.emissions_kgCO2e = e.amount * e.emission_factor]_vars

C3_Witness ==
    /\ lastOp = "manual_entry"
    /\ rows_before = 1
    /\ Len(store) = 2
    /\ store[1].business_id = request.entry.business_id
    /\ store[1] # store[2]

\* C4: no step other than a bulk upload removes or changes a record that
\* is already in the store.
C4_OnlyBulkLoadDeletes ==
    [][\/ lastOp' = "upload_csv"
       \/ /\ Len(store') >= Len(store)
          /\ SubSeq(store', 1, Len(store)) = store]_vars

\* C5: dashboard answers 404 when the caller has no record for the
\* business, and otherwise reports the sum of exactly the caller's records
\* of that business, that sum over 12, and its split by source_category
\* and by scope.
C5_Dashboard ==
    lastOp = "get_dashboard" =>
        LET sel == Mine(request.business_id)
            ByCol(col, v) == {i \in sel : store[i][col] = v}
        IN  IF sel = {}
            THEN response.status = 404
            ELSE /\ response.status = 200
                 /\ response.body.total_emissions = <<SumAt(sel), 1>>
                 /\ response.body.avg_monthly_emissions[2] > 0
                 /\ response.body.avg_monthly_emissions[1] * 12 =
                        SumAt(sel) * response.body.avg_monthly_emissions[2]
                 /\ response.body.contributors =
                        {[source_category |-> store[i].source_category,
                          emissions_kgCO2e |->
                              SumAt(ByCol("source_category", store[i].source_category))] :
                            i \in sel}
                 /\ response.body.by_scope =
                        {[scope |-> store[i].scope,
                          emissions_kgCO2e |-> SumAt(ByCol("scope", store[i].scope))] :
                            i \in sel}

C5_Witness ==
    /\ lastOp = "get_dashboard"
    /\ response.status = 200
    /\ Cardinality(Mine(request.business_id)) = 1
    /\ Len(store) = 2
    /\ \E i \in 1..Len(store) :
          /\ store[i].business_id # request.business_id
          /\ store[i].emissions_kgCO2e # 0

\* C6: a green score that insights returns lies in [0, 100]; it is 100
\* when the sector average is not positive and otherwise
\* (1 - total / average) * 100 cut off at 0 and at 100, the average being
\* the mean over business_ids of the emission sums of all records with the
\* business_type of the caller's first record.
C6_GreenScore ==
    (lastOp = "get_insights" /\ response.status = 200) =>
        LET sel == Mine(request.business_id)
            first == CHOOSE i \in sel : \A j \in sel : i <= j
            sector == {i \in 1..Len(store) :
                          store[i].business_type = store[first].business_type}
            n == Cardinality({store[i].business_id : i \in sector})
            S == SumAt(sector)
            total == SumAt(sel)
            raw == 100 * (S - total * n)
            score == response.body.green_score
        IN  /\ score[2] > 0
            /\ 0 <= score[1]
            /\ score[1] <= 100 * score[2]
            /\ IF S <= 0 THEN score = <<100, 1>>
               ELSE IF raw < 0 THEN score = <<0, 1>>
               ELSE IF raw > 100 * S THEN score = <<100, 1>>
               ELSE score[1] * S = raw * score[2]

C6_Witness ==
    /\ lastOp = "get_insights"
    /\ response.status = 200
    /\ SumAt(Mine(request.business_id)) < 0
    /\ LET sel == Mine(request.business_id)
           first == CHOOSE i \in sel : \A j \in sel : i <= j
       IN  SumAt({i \in 1..Len(store) :
                     store[i].business_type = store[first].business_type}) > 0
    /\ response.body.green_score = <<100, 1>>

\* C7: the simulation gives each of the caller's records emissions *
\* (1 - pct / 100), pct being waste_reduction for waste, solar_percentage
\* for electricity, transport_reduction for transport and
\* commute_reduction for commute, and leaves every other category as
\* stored; so pct = 0 keeps the stored value and pct = 100 gives 0.
PctFor(category, scenario) ==
    CASE category = "waste" -> scenario.waste_reduction
      [] category = "electricity" -> scenario.solar_percentage
      [] category = "transport" -> scenario.transport_reduction
      [] category = "commute" -> scenario.commute_reduction
      [] OTHER -> 0

C7_ScenarioSimulation ==
    (lastOp = "get_forecast" /\ "sim_data" \in DOMAIN locals) =>
        LET sim == locals.sim_data
            df == SelectSeq(store, LAMBDA r : /\ r.business_id = request.business_id
                                              /\ r.user_id = uid)
        IN  /\ Len(sim) = Len(df)
            /\ \A i \in 1..Len(df) :
                  LET pct == PctFor(df[i].source_category, request.scenario)
                      e == df[i].emissions_kgCO2e
                      x == sim[i].emissions_kgCO2e
                  IN  /\ \A c \in required_columns : sim[i][c] = df[i][c]
                      /\ x[2] > 0
                      /\ x[1] * 100 = e * (100 - pct) * x[2]
                      /\ pct = 0 => x = <<e, 1>>
                      /\ pct = 100 => x = <<0, 1>>

C7_Witness ==
    /\ lastOp = "get_forecast"
    /\ "sim_data" \in DOMAIN locals
    /\ request.scenario.solar_percentage = 50
    /\ {locals.df[i].source_category : i \in 1..Len(locals.df)} =
           {"electricity", "other"}
    /\ \E i \in 1..Len(locals.df) :
          /\ locals.df[i].source_category = "other"
          /\ locals.df[i].emissions_kgCO2e = -2
          /\ locals.sim_data[i].emissions_kgCO2e = <<-2, 1>>
    /\ \E i \in 1..Len(locals.df) :
          /\ locals.df[i].source_category = "electricity"
          /\ locals.df[i].emissions_kgCO2e = 12
          /\ locals.sim_data[i].emissions_kgCO2e = <<6, 1>>

\* C8: forecast answers 400 "Not enough data for forecast" without fitting
\* the model when the caller has no record for the business or fewer than
\* two distinct dates are left after the category filter, and fits the
\* model exactly when two or more are left.
C8_ForecastNeedsTwoDates ==
    lastOp = "get_forecast" =>
        LET sel == Mine(request.business_id)
            f == request.scenario.source_category
            kept == IF f = "all" THEN sel
                    ELSE {i \in sel : store[i].source_category = f}
            dates == {store[i].date : i \in kept}
        IN  IF sel = {} \/ Cardinality(dates) < 2
            THEN /\ response.status = 400
                 /\ response.detail = "Not enough data for forecast"
                 /\ ~locals.fitted
            ELSE /\ locals.fitted
                 /\ Cardinality(locals.df_prophet) = Cardinality(dates)

C8_Witness ==
    /\ lastOp = "get_forecast"
    /\ response.status = 400
    /\ request.scenario.source_category = "electricity"
    /\ Cardinality({store[i].date : i \in Mine(request.business_id)}) = 2
    /\ \E i \in Mine(request.business_id) : store[i].source_category = "electricity"

\* C9: report returns the rendered document whenever the caller has a
\* record for the business, and fails, with 404, only when there is none.
C9_ReportOutcome ==
    lastOp = "generate_pdf_report" =>
        IF Mine(request.business_id) = {}
        THEN response.status = 404
        ELSE response.status = 200 /\ response.media_type = "application/pdf"

\* C10: when a handler has finished, whether it returned or raised, no
\* connection it opened is still open.
C10_ConnectionsReleased ==
    lastOp \in {"manual_entry", "upload_csv", "get_dashboard", "get_insights",
                "get_forecast", "generate_pdf_report"} => openConns = 0

C10_Witness ==
    /\ lastOp = "generate_pdf_report"
    /\ response.status = 500
    /\ rows_before > 0
    /\ openConns = 0
====
